---- MODULE Spec2Model ----
(***************************************************************************)
(* Model of src/ib_utils/ib_utils.py: the environment detector             *)
(* (_is_notebook), the connector (_ib_connect), the disconnector           *)
(* (_ib_disconnect) and the scoped session helper (ib_session, a           *)
(* generator wrapped by contextlib.contextmanager).                        *)
(*                                                                         *)
(* Each scope is one `with ib_session(...) as ib:` statement.  Its pc is   *)
(* the source line it is about to execute.  The external library (IB,      *)
(* util.startLoop) and the interactive shell (IPython) are opaque: every   *)
(* call into them may return or raise, chosen nondeterministically.        *)
(***************************************************************************)
EXTENDS Integers, Sequences, FiniteSets, TLC

\* ------------------------------------------------------------- bounds
NumScopes == 2

Scopes == 1..NumScopes
Handles == 1..NumScopes

\* ------------------------------------------------------------- constants
DefaultHost == "127.0.0.1"
DefaultPort == 4002
DefaultClientId == 1

\* The local `ib` of ib_session before line 80 has assigned it.
Unbound == 0

\* ------------------------------------------------------------- exceptions
\* An exception object: its class, where it was raised (which identifies the
\* object within one scope), and the origins of its __cause__ and __context__.
NoExc == [type |-> "None", origin |-> "none", cause |-> "none", context |-> "none"]

Exc(t, o, ctx) == [type |-> t, origin |-> o, cause |-> "none", context |-> ctx]

\* Python's builtin exception hierarchy, as far as the code's except clause
\* and contextlib's handlers distinguish it.
Bases(t) ==
    CASE t = "UnboundLocalError" -> {"UnboundLocalError", "NameError", "Exception"}
      [] t = "NameError" -> {"NameError", "Exception"}
      [] t = "ModuleNotFoundError" -> {"ModuleNotFoundError", "ImportError", "Exception"}
      [] t = "ImportError" -> {"ImportError", "Exception"}
      [] t = "ConnectionRefusedError" -> {"ConnectionRefusedError", "OSError", "Exception"}
      [] OTHER -> {t, "Exception"}

IsInstance(e, classes) == Bases(e.type) \cap classes # {}

\* ------------------------------------------------------------- _is_notebook
\* What `from IPython import get_ipython; get_ipython().__class__.__name__`
\* does in the running process: it yields a class name, or it raises.
Envs ==
    { [kind |-> "shell", name |-> "ZMQInteractiveShell"],
      [kind |-> "shell", name |-> "TerminalInteractiveShell"],
      [kind |-> "shell", name |-> "Shell"],
      [kind |-> "shell", name |-> "NoneType"],
      [kind |-> "raise", name |-> "ImportError"],
      [kind |-> "raise", name |-> "ModuleNotFoundError"],
      [kind |-> "raise", name |-> "NameError"],
      [kind |-> "raise", name |-> "AttributeError"] }

\* Variant: an except clause that names ImportError alone.
ExceptClause_ImportOnly == {"ImportError"}

\* line 22: except (NameError, ImportError)
ExceptClause == {"NameError", "ImportError"}

\* Variant: the shell name compared against the terminal shell's marker.
_is_notebook_wrong_marker(e) ==
    IF e.kind = "raise"
    THEN IF IsInstance(Exc(e.name, "L15", "none"), ExceptClause)
         THEN [raised |-> FALSE, value |-> FALSE, exc |-> NoExc]
         ELSE [raised |-> TRUE, value |-> FALSE, exc |-> Exc(e.name, "L15", "none")]
    ELSE [raised |-> FALSE, value |-> e.name = "TerminalInteractiveShell", exc |-> NoExc]

\* lines 12-23: the detector's return value, or the exception it lets through
_is_notebook(e) ==
    IF e.kind = "raise"
    THEN IF IsInstance(Exc(e.name, "L15", "none"), ExceptClause)
         THEN [raised |-> FALSE, value |-> FALSE, exc |-> NoExc]
         ELSE [raised |-> TRUE, value |-> FALSE, exc |-> Exc(e.name, "L15", "none")]
    ELSE IF e.name = "ZMQInteractiveShell"
         THEN [raised |-> FALSE, value |-> TRUE, exc |-> NoExc]
         ELSE IF e.name = "TerminalInteractiveShell"
              THEN [raised |-> FALSE, value |-> FALSE, exc |-> NoExc]
              ELSE [raised |-> FALSE, value |-> FALSE, exc |-> NoExc]

\* ------------------------------------------------------------- arguments
\* What a caller writes between the parentheses of ib_session(...): the set of
\* parameters it supplies and their values (unsupplied fields are not read).
CallForms ==
    { [supplied |-> {}, host |-> "", port |-> 0, clientId |-> 0],
      [supplied |-> {"host", "port", "clientId"},
       host |-> "10.0.0.5", port |-> 4001, clientId |-> 7] }

\* line 60: ib_session's parameters after default binding
ib_session_params(given) ==
    [host |-> IF "host" \in given.supplied THEN given.host ELSE DefaultHost,
     port |-> IF "port" \in given.supplied THEN given.port ELSE DefaultPort,
     clientId |-> IF "clientId" \in given.supplied THEN given.clientId
                  ELSE DefaultClientId]

\* Variant: port and clientId passed in the wrong order.
_ib_connect_call_swapped(p) == <<p.host, p.clientId, p.port>>

\* line 80: _ib_connect(host, port, clientId), positional
_ib_connect_call(p) == <<p.host, p.port, p.clientId>>

\* line 26: _ib_connect's parameters bound from the positional arguments
\* (its own defaults fill what the call leaves out)
_ib_connect_params(a) ==
    [host |-> IF Len(a) >= 1 THEN a[1] ELSE DefaultHost,
     port |-> IF Len(a) >= 2 THEN a[2] ELSE DefaultPort,
     clientId |-> IF Len(a) >= 3 THEN a[3] ELSE DefaultClientId]

\* line 46: ib.connect(host, port, clientId), positional
connect_call(p) == <<p.host, p.port, p.clientId>>

\* ------------------------------------------------------------- library calls
\* One call this layer made into the external library, and whether the call
\* returned (ok) or raised.
LibCall(op, h, a, ok) ==
    [op |-> op, h |-> h, ok |-> ok,
     host |-> IF Len(a) >= 1 THEN a[1] ELSE "",
     port |-> IF Len(a) >= 2 THEN a[2] ELSE 0,
     clientId |-> IF Len(a) >= 3 THEN a[3] ELSE 0]

VARIABLES
    env,        \* the interactive shell of the process
    pc,         \* per scope: the line about to run
    given,      \* per scope: the arguments the caller wrote
    params,     \* per scope: ib_session's host, port, clientId
    ib,         \* per scope: ib_session's local `ib` (Unbound or a handle)
    isNotebook, \* per scope: what _is_notebook() returned ("unset" before)
    pending,    \* per scope: the exception propagating inside the generator
    thrown,     \* per scope: the exception the block raised into __exit__
    entered,    \* per scope: __enter__ returned and the block was entered
    blockSeen,  \* per scope: the handle states the block observed while it ran
    calls,      \* per scope: the library calls made, in order
    result,     \* per scope: what the with statement's caller received
    handles,    \* per handle: its state inside the library
    nextHandle  \* the next IB() object

vars == <<env, pc, given, params, ib, isNotebook, pending, thrown, entered,
          blockSeen, calls, result, handles, nextHandle>>

NoResult == [kind |-> "none", exc |-> NoExc]

Init ==
    /\ env \in Envs
    /\ pc = [s \in Scopes |-> "idle"]
    /\ given = [s \in Scopes |-> [supplied |-> {}, host |-> "", port |-> 0, clientId |-> 0]]
    /\ params = [s \in Scopes |-> [host |-> "", port |-> 0, clientId |-> 0]]
    /\ ib = [s \in Scopes |-> Unbound]
    /\ isNotebook = [s \in Scopes |-> "unset"]
    /\ pending = [s \in Scopes |-> NoExc]
    /\ thrown = [s \in Scopes |-> NoExc]
    /\ entered = [s \in Scopes |-> FALSE]
    /\ blockSeen = [s \in Scopes |-> {}]
    /\ calls = [s \in Scopes |-> <<>>]
    /\ result = [s \in Scopes |-> NoResult]
    /\ handles = [h \in Handles |-> "absent"]
    /\ nextHandle = 1

\* ------------------------------------------------------------- the library
\* The exceptions the opaque collaborators raise when they fail.
StartLoopFailure == "ModuleNotFoundError"
ConnectFailure == "ConnectionRefusedError"
DisconnectFailure == "OSError"
\* The failures a caller's block may raise while holding the session.
BlockFailures == {"ValueError", "StopIteration"}

HandleState(h) == IF h \in Handles THEN handles[h] ELSE "none"

\* The module starts no thread and awaits nothing: __enter__ and __exit__ are
\* synchronous calls, so while one scope is between lines 43 and 47 or in its
\* finally clause no other scope takes a step.  Scopes overlap only while
\* their blocks run (nested or interleaved with statements).
Running(s) == pc[s] \in {"L43", "L44", "L45", "L83"}

MayStep(s) == \A o \in Scopes \ {s} : ~Running(o)

\* ------------------------------------------------------------- ib_session
\* `with ib_session(...)`: line 60 binds the parameters, __enter__ starts the
\* generator, which enters the try block and calls _ib_connect (line 80).
ib_session(s) ==
    /\ pc[s] = "idle"
    /\ MayStep(s)
    /\ \E g \in CallForms :
        /\ given' = [given EXCEPT ![s] = g]
        /\ params' = [params EXCEPT ![s] = ib_session_params(g)]
    /\ pc' = [pc EXCEPT ![s] = "L43"]
    /\ UNCHANGED <<env, ib, isNotebook, pending, thrown, entered, blockSeen,
                   calls, result, handles, nextHandle>>

\* Variant: the loop start made unconditional.
pc_after_is_notebook_always(r) == IF r.raised THEN "L83" ELSE "L44"

\* lines 43-45: the loop start is guarded by the detector's return value; an
\* exception of the detector leaves _ib_connect for ib_session's finally
pc_after_is_notebook(r) ==
    IF r.raised THEN "L83" ELSE IF r.value THEN "L44" ELSE "L45"

\* line 43: if _is_notebook()
IsNotebookStep(s) ==
    /\ pc[s] = "L43"
    /\ MayStep(s)
    /\ LET r == _is_notebook(env) IN
        /\ isNotebook' = [isNotebook EXCEPT ![s] =
                             IF r.raised THEN "raised"
                             ELSE IF r.value THEN "true" ELSE "false"]
        /\ pending' = [pending EXCEPT ![s] = r.exc]
        /\ pc' = [pc EXCEPT ![s] = pc_after_is_notebook(r)]
    /\ UNCHANGED <<env, given, params, ib, thrown, entered, blockSeen, calls,
                   result, handles, nextHandle>>

\* line 44: util.startLoop()
StartLoop(s) ==
    /\ pc[s] = "L44"
    /\ MayStep(s)
    /\ \E ok \in BOOLEAN :
        /\ calls' = [calls EXCEPT ![s] = Append(@, LibCall("startLoop", 0, <<>>, ok))]
        /\ pending' = [pending EXCEPT ![s] =
                          IF ok THEN NoExc ELSE Exc(StartLoopFailure, "startLoop", "none")]
        /\ pc' = [pc EXCEPT ![s] = IF ok THEN "L45" ELSE "L83"]
    /\ UNCHANGED <<env, given, params, ib, isNotebook, thrown, entered,
                   blockSeen, result, handles, nextHandle>>

\* Variant: the handle is bound before the handshake is attempted.
ib_after_connect_always(ok, h) == h

\* line 80: `ib` is assigned only when _ib_connect returns
ib_after_connect(ok, h) == IF ok THEN h ELSE Unbound

\* Variant: a failed handshake is swallowed and the block is entered.
pc_after_connect_swallow(ok) == "L81"

\* Variant: a failed handshake is attempted again.
pc_after_connect_retry(ok) == IF ok THEN "L81" ELSE "L45"

\* lines 80-83: a return of _ib_connect reaches the yield, a raise the finally
pc_after_connect(ok) == IF ok THEN "L81" ELSE "L83"

\* Variant: one session object kept and handed out again.
IB_cached(next) == IF next > 1 THEN 1 ELSE next

\* line 45: IB() constructs a new object on every call
IB(next) == next

\* lines 45-47 and 80-81: ib = IB(); ib.connect(host, port, clientId);
\* return ib; the generator assigns it and yields it to __enter__'s caller.
Connect(s) ==
    /\ pc[s] = "L45"
    /\ MayStep(s)
    /\ nextHandle \in Handles
    /\ LET h == IB(nextHandle)
           a == connect_call(_ib_connect_params(_ib_connect_call(params[s])))
       IN
        /\ nextHandle' = nextHandle + 1
        /\ \E ok \in BOOLEAN :
            /\ calls' = [calls EXCEPT ![s] = Append(@, LibCall("connect", h, a, ok))]
            /\ handles' = [handles EXCEPT ![h] =
                              IF ok THEN "connected" ELSE "unconnected"]
            /\ ib' = [ib EXCEPT ![s] = ib_after_connect(ok, h)]
            /\ pending' = [pending EXCEPT ![s] =
                              IF ok THEN NoExc ELSE Exc(ConnectFailure, "connect", "none")]
            /\ pc' = [pc EXCEPT ![s] = pc_after_connect(ok)]
            /\ entered' = [entered EXCEPT ![s] = pc_after_connect(ok) = "L81"]
    /\ UNCHANGED <<env, given, params, isNotebook, thrown, blockSeen, result>>

\* The caller's block runs on the handle it was handed (other scopes may
\* take steps while it does) and completes: __exit__(None, None, None)
\* resumes the generator after the yield, which falls into the finally clause.
BlockReturn(s) ==
    /\ pc[s] = "L81"
    /\ MayStep(s)
    /\ blockSeen' = [blockSeen EXCEPT ![s] = @ \cup {HandleState(ib[s])}]
    /\ pc' = [pc EXCEPT ![s] = "L83"]
    /\ UNCHANGED <<env, given, params, ib, isNotebook, pending, thrown, entered,
                   calls, result, handles, nextHandle>>

\* The caller's block runs on the handle and raises: __exit__(typ, value, tb)
\* throws value into the generator at the yield, which unwinds into the
\* finally clause.
BlockRaise(s) ==
    /\ pc[s] = "L81"
    /\ MayStep(s)
    /\ blockSeen' = [blockSeen EXCEPT ![s] = @ \cup {HandleState(ib[s])}]
    /\ \E t \in BlockFailures :
        /\ thrown' = [thrown EXCEPT ![s] = Exc(t, "block", "none")]
        /\ pending' = [pending EXCEPT ![s] = Exc(t, "block", "none")]
    /\ pc' = [pc EXCEPT ![s] = "L83"]
    /\ UNCHANGED <<env, given, params, ib, isNotebook, entered, calls, result,
                   handles, nextHandle>>

\* ------------------------------------------------------------- cleanup
\* Variant: the cleanup written as plain code after the yield.
finally_runs_on_return_only(p) == p = NoExc

\* lines 82-83: a finally clause runs whether or not an exception is pending
finally_runs(p) == TRUE

\* Variant: a disconnector that never reaches the library.
_ib_disconnect_noop(h, ok) == <<>>

\* Variant: a disconnector that closes the session opened first instead of
\* the one it is given.
_ib_disconnect_first(h, ok) ==
    <<LibCall("disconnect", IF h > 1 THEN 1 ELSE h, <<>>, ok)>>

\* lines 50-56 (called at line 83): ib.disconnect() on the handle
_ib_disconnect(h, ok) == <<LibCall("disconnect", h, <<>>, ok)>>

\* Variant: a cleanup that swallows whatever was propagating.
finally_raises_swallow(p, ibv, discOk) == NoExc

\* Variant: a failing disconnect is suppressed while the block's exception
\* is propagating.
finally_raises_keep_original(p, ibv, discOk) ==
    IF ibv = Unbound THEN Exc("UnboundLocalError", "L83", p.origin)
    ELSE IF ~discOk /\ p = NoExc THEN Exc(DisconnectFailure, "disconnect", p.origin)
    ELSE p

\* Variant: the connect call placed before the try, so that its failure
\* passes the cleanup by.
finally_raises_connect_before_try(p, ibv, discOk) ==
    IF ibv = Unbound THEN p
    ELSE IF ~discOk THEN Exc(DisconnectFailure, "disconnect", p.origin)
    ELSE p

\* lines 82-83: what leaves the finally clause.  Reading an unassigned `ib`
\* raises before _ib_disconnect is called; a failing disconnect raises its
\* own exception; otherwise the pending exception (if any) resumes.
finally_raises(p, ibv, discOk) ==
    IF ibv = Unbound THEN Exc("UnboundLocalError", "L83", p.origin)
    ELSE IF ~discOk THEN Exc(DisconnectFailure, "disconnect", p.origin)
    ELSE p

\* How the generator function ends: it returns (StopIteration for the one
\* who resumed it) or raises; a StopIteration escaping its body is replaced
\* by a RuntimeError whose __cause__ is that StopIteration.
generator_exit(e) ==
    IF e = NoExc THEN [kind |-> "return", exc |-> NoExc]
    ELSE IF e.type = "StopIteration"
         THEN [kind |-> "raise",
               exc |-> [type |-> "RuntimeError", origin |-> "generator",
                        cause |-> e.origin, context |-> e.origin]]
         ELSE [kind |-> "raise", exc |-> e]

\* line 59, @contextmanager: __enter__ runs the generator to its yield; an
\* exception of the generator propagates; a generator that returns without
\* yielding is a RuntimeError.
cm_enter(out) ==
    IF out.kind = "raise" THEN [kind |-> "raised", exc |-> out.exc]
    ELSE [kind |-> "raised", exc |-> Exc("RuntimeError", "contextmanager", "none")]

\* line 59, @contextmanager: __exit__ and the with statement around it.
\* value is the block's exception (NoExc when the block completed); out is
\* how the resumed generator ended.  __exit__ returning false makes the with
\* statement re-raise value itself.
cm_exit(value, out) ==
    IF value = NoExc
    THEN IF out.kind = "return" THEN [kind |-> "normal", exc |-> NoExc]
         ELSE [kind |-> "raised", exc |-> out.exc]
    ELSE IF out.kind = "return" THEN [kind |-> "normal", exc |-> NoExc]
         ELSE IF out.exc = value THEN [kind |-> "raised", exc |-> value]
         ELSE IF /\ IsInstance(out.exc, {"RuntimeError"})
                 /\ value.type = "StopIteration"
                 /\ out.exc.cause = value.origin
              THEN [kind |-> "raised", exc |-> value]
              ELSE [kind |-> "raised", exc |-> out.exc]

\* lines 82-83 and what follows them: the finally clause evaluates `ib`,
\* calls _ib_disconnect(ib), the generator ends, and __enter__ or __exit__
\* hands the outcome to the caller of the with statement.
Finally(s) ==
    /\ pc[s] = "L83"
    /\ MayStep(s)
    /\ \E discOk \in BOOLEAN :
        /\ (ib[s] = Unbound \/ ~finally_runs(pending[s])) => discOk
        /\ LET raised == IF finally_runs(pending[s])
                         THEN finally_raises(pending[s], ib[s], discOk)
                         ELSE pending[s]
               called == finally_runs(pending[s]) /\ ib[s] # Unbound
               out == generator_exit(raised)
               made == IF called THEN _ib_disconnect(ib[s], discOk) ELSE <<>>
           IN
            /\ calls' = [calls EXCEPT ![s] = @ \o made]
            /\ handles' = IF made # <<>> /\ made[1].h \in Handles
                          THEN [handles EXCEPT ![made[1].h] =
                                   IF discOk THEN "disconnected" ELSE "unknown"]
                          ELSE handles
            /\ pending' = [pending EXCEPT ![s] = out.exc]
            /\ result' = [result EXCEPT ![s] =
                             IF entered[s] THEN cm_exit(thrown[s], out)
                             ELSE cm_enter(out)]
    /\ pc' = [pc EXCEPT ![s] = "done"]
    /\ UNCHANGED <<env, given, params, ib, isNotebook, thrown, entered,
                   blockSeen, nextHandle>>

Next ==
    \E s \in Scopes :
        \/ ib_session(s)
        \/ IsNotebookStep(s)
        \/ StartLoop(s)
        \/ Connect(s)
        \/ BlockReturn(s)
        \/ BlockRaise(s)
        \/ Finally(s)

Spec == Init /\ [][Next]_vars

\* The with statement is synchronous: once the generator is resumed its
\* finally clause runs to the end, and every started step completes.
FairSpec == Spec /\ \A s \in Scopes : WF_vars(Finally(s))

TypeOK ==
    /\ env \in Envs
    /\ pc \in [Scopes -> {"idle", "L43", "L44", "L45", "L81", "L83", "done"}]
    /\ ib \in [Scopes -> {Unbound} \cup Handles]
    /\ isNotebook \in [Scopes -> {"unset", "true", "false", "raised"}]
    /\ entered \in [Scopes -> BOOLEAN]
    /\ handles \in [Handles -> {"absent", "connected", "unconnected", "disconnected", "unknown"}]
    /\ nextHandle \in 1..(NumScopes + 1)

\* ------------------------------------------------------------- vocabulary
\* The positions in scope s's call log of its calls to op.
CallsOf(s, op) == {i \in 1..Len(calls[s]) : calls[s][i].op = op}

\* Every call to op made so far, as (scope, position) pairs.
AllCallsOf(op) == UNION {{<<s, i>> : i \in CallsOf(s, op)} : s \in Scopes}

\* The connect handshake of scope s returned.
ConnectSucceeded(s) == \E i \in CallsOf(s, "connect") : calls[s][i].ok

\* The connect handshake of scope s raised.
ConnectRaised(s) == \E i \in CallsOf(s, "connect") : ~calls[s][i].ok

\* The handle the library's connect of scope s was called on.
ConnectedHandle(s) == {calls[s][i].h : i \in CallsOf(s, "connect")}

\* _ib_connect of scope s ended without returning a handle.
ConnectorFailed(s) == pc[s] \in {"L83", "done"} /\ ~ConnectSucceeded(s)

Notebook == [kind |-> "shell", name |-> "ZMQInteractiveShell"]

\* ------------------------------------------------------------- claims

\* C1: in every ib_session invocation whose connect handshake succeeded, the
\* Disconnector has been invoked exactly once, on the handle connect
\* produced, by the time the invocation has finished, whether the block
\* completed or raised; and it is never invoked more than once.
C1_DisconnectExactlyOnce ==
    \A s \in Scopes :
        /\ Cardinality(CallsOf(s, "disconnect")) <= 1
        /\ (pc[s] = "done" /\ ConnectSucceeded(s)) =>
              /\ Cardinality(CallsOf(s, "disconnect")) = 1
              /\ \A i \in CallsOf(s, "disconnect") :
                    /\ calls[s][i].h \in ConnectedHandle(s)
                    /\ calls[s][i].h = ib[s]

\* C1 witness: one scope finished after its block raised and another after
\* its block completed, each with its single disconnect.
C1_Witness ==
    \E s, o \in Scopes :
        /\ pc[s] = "done" /\ ConnectSucceeded(s) /\ thrown[s] # NoExc
        /\ Cardinality(CallsOf(s, "disconnect")) = 1
        /\ pc[o] = "done" /\ ConnectSucceeded(o) /\ thrown[o] = NoExc
        /\ Cardinality(CallsOf(o, "disconnect")) = 1

C3_NoDisconnectAfterFailedConnect ==
    \A s \in Scopes :
        ConnectorFailed(s) => CallsOf(s, "disconnect") = {}

\* C3 witness: an invocation finished after its handshake raised, and its
\* log holds the connect call only.
C3_Witness ==
    \E s \in Scopes :
        /\ pc[s] = "done" /\ ConnectRaised(s)
        /\ CallsOf(s, "connect") # {}
        /\ CallsOf(s, "disconnect") = {}

\* C4: when the block raises and the disconnect completes normally, the
\* Disconnector is called once and the caller receives exactly the block's
\* exception: the scope neither completes normally nor raises another one.
C4_BlockFailureUnchanged ==
    \A s \in Scopes :
        (/\ pc[s] = "done"
         /\ thrown[s] # NoExc
         /\ \E i \in CallsOf(s, "disconnect") : calls[s][i].ok) =>
            /\ Cardinality(CallsOf(s, "disconnect")) = 1
            /\ result[s].kind = "raised"
            /\ result[s].exc = thrown[s]
            /\ result[s].exc.origin = "block"

\* C4 witness: a block raised StopIteration, the disconnect returned, and the
\* with statement has ended.
C4_Witness ==
    \E s \in Scopes :
        /\ pc[s] = "done"
        /\ thrown[s].type = "StopIteration"
        /\ \E i \in CallsOf(s, "disconnect") : calls[s][i].ok
        /\ result[s].kind = "raised"

\* C5: under a notebook shell every ib_session invocation calls
\* util.startLoop exactly once, before its connect; so the scopes that have
\* got past line 44 have made as many startLoop calls as there are of them.
C5_StartLoopOncePerScope ==
    env = Notebook =>
        /\ \A s \in Scopes :
              /\ Cardinality(CallsOf(s, "startLoop")) =
                    (IF pc[s] \in {"idle", "L43", "L44"} THEN 0 ELSE 1)
              /\ \A i \in CallsOf(s, "connect") :
                    \E j \in CallsOf(s, "startLoop") : j < i
        /\ Cardinality(AllCallsOf("startLoop")) =
              Cardinality({s \in Scopes : pc[s] \notin {"idle", "L43", "L44"}})

\* C5 witness: under a notebook shell every scope has finished, each after
\* one startLoop followed by its connect: NumScopes startLoop calls in all.
C5_Witness ==
    /\ env = Notebook
    /\ Cardinality(AllCallsOf("startLoop")) = NumScopes
    /\ \A s \in Scopes :
          /\ pc[s] = "done"
          /\ Len(calls[s]) >= 2
          /\ calls[s][1].op = "startLoop"
          /\ calls[s][2].op = "connect"

\* C6: the (host, port, clientId) that reaches the library's connect is the
\* triple the caller supplied, argument for argument; a parameter the caller
\* left out arrives as 127.0.0.1, 4002 and 1 respectively.
C6_ConnectArguments ==
    \A s \in Scopes : \A i \in CallsOf(s, "connect") :
        /\ calls[s][i].host =
              (IF "host" \in given[s].supplied THEN given[s].host ELSE "127.0.0.1")
        /\ calls[s][i].port =
              (IF "port" \in given[s].supplied THEN given[s].port ELSE 4002)
        /\ calls[s][i].clientId =
              (IF "clientId" \in given[s].supplied THEN given[s].clientId ELSE 1)

\* C6 witness: ib_session() without arguments has reached the library's
\* connect with the defaults, and another scope with its own triple.
C6_Witness ==
    \E s, o \in Scopes :
        /\ given[s].supplied = {}
        /\ \E i \in CallsOf(s, "connect") :
              <<calls[s][i].host, calls[s][i].port, calls[s][i].clientId>>
                  = <<"127.0.0.1", 4002, 1>>
        /\ given[o].supplied = {"host", "port", "clientId"}
        /\ \E i \in CallsOf(o, "connect") :
              <<calls[o][i].host, calls[o][i].port, calls[o][i].clientId>>
                  = <<"10.0.0.5", 4001, 7>>

\* The contexts the detector must classify as "not a notebook": a terminal
\* shell, another shell type, no active shell, an absent introspection
\* capability (import failure) and a naming/lookup failure.
NotNotebookEnvs ==
    { [kind |-> "shell", name |-> "TerminalInteractiveShell"],
      [kind |-> "shell", name |-> "Shell"],
      [kind |-> "shell", name |-> "NoneType"],
      [kind |-> "raise", name |-> "ImportError"],
      [kind |-> "raise", name |-> "ModuleNotFoundError"],
      [kind |-> "raise", name |-> "NameError"] }

\* C7: _is_notebook returns true only under the ZMQInteractiveShell shell
\* type; in each of the not-a-notebook contexts it returns false and lets no
\* exception through.
C7_DetectorClassification ==
    \A s \in Scopes :
        /\ isNotebook[s] = "true" => env = Notebook
        /\ (env = Notebook /\ isNotebook[s] # "unset") => isNotebook[s] = "true"
        /\ (env \in NotNotebookEnvs /\ isNotebook[s] # "unset") =>
              /\ isNotebook[s] = "false"
              /\ pending[s].origin # "L15"
              /\ result[s].exc.origin # "L15"

\* C7 witness: the introspection raised NameError and the detector returned
\* false to a connect that went on to the handshake.
C7_Witness ==
    /\ env = [kind |-> "raise", name |-> "NameError"]
    /\ \E s \in Scopes : isNotebook[s] = "false" /\ CallsOf(s, "connect") # {}

\* The state of a scope invocation, read off what it has done: closed once
\* the Disconnector was invoked, open once its handshake has returned.
ScopeState(s) ==
    IF CallsOf(s, "disconnect") # {} THEN "closed"
    ELSE IF ConnectSucceeded(s) THEN "open"
    ELSE "unopened"

\* C8: a scope's state only moves unopened -> open -> closed; a failed
\* connect leaves it unopened for good; one invocation makes at most one
\* connect and at most one disconnect call.
C8_StateMachine ==
    [][\A s \in Scopes :
          /\ <<ScopeState(s), ScopeState(s)'>> \in
                { <<"unopened", "unopened">>, <<"unopened", "open">>,
                  <<"open", "open">>, <<"open", "closed">>,
                  <<"closed", "closed">> }
          /\ ConnectRaised(s) => ScopeState(s)' = "unopened"
          /\ Cardinality(CallsOf(s, "connect")') <= 1
          /\ Cardinality(CallsOf(s, "disconnect")') <= 1
          /\ Cardinality(ConnectedHandle(s)') <= 1]_vars

\* C8 witness: one scope has gone through open to closed and another ended
\* unopened after a failed handshake.
C8_Witness ==
    \E s, o \in Scopes :
        /\ pc[s] = "done" /\ ScopeState(s) = "closed" /\ ConnectSucceeded(s)
        /\ pc[o] = "done" /\ ScopeState(o) = "unopened" /\ ConnectRaised(o)

\* C9: no open session is leaked: a scope that is open when its block exits
\* eventually is closed, and a finished invocation whose connect succeeded
\* has requested a disconnect on its handle.
C9_NoLeak ==
    \A s \in Scopes :
        /\ [](pc[s] = "done" /\ ConnectSucceeded(s) =>
                \E i \in CallsOf(s, "disconnect") :
                    calls[s][i].h \in ConnectedHandle(s))
        /\ (pc[s] = "L83" /\ ScopeState(s) = "open") ~> (ScopeState(s) = "closed")

\* C9 witness: a block that raised has exited while its scope is still open.
C9_Witness ==
    \E s \in Scopes :
        pc[s] = "L83" /\ ScopeState(s) = "open" /\ thrown[s] # NoExc

\* C10: the block runs only on an open handle: it is entered only after the
\* handshake of its scope returned, every step of it sees a connected
\* handle, and the Disconnector is invoked only after the block has exited.
C10_BlockOnlyWhileOpen ==
    \A s \in Scopes :
        /\ entered[s] => ConnectSucceeded(s)
        /\ pc[s] = "L81" =>
              /\ entered[s]
              /\ ScopeState(s) = "open"
              /\ ib[s] \in ConnectedHandle(s)
              /\ HandleState(ib[s]) = "connected"
        /\ blockSeen[s] \subseteq {"connected"}
        /\ CallsOf(s, "disconnect") # {} => pc[s] = "done"

\* C10 witness: a block ran on its handle and the scope has since been
\* closed.
C10_Witness ==
    \E s \in Scopes :
        /\ blockSeen[s] = {"connected"}
        /\ pc[s] = "done"
        /\ ScopeState(s) = "closed"

\* C11: when the block raises and the disconnect of the cleanup fails too,
\* the caller of ib_session receives the disconnect failure, raised while
\* the block's exception was being handled, and not the block's exception.
C11_DisconnectFailureMasks ==
    \A s \in Scopes :
        (/\ pc[s] = "done"
         /\ thrown[s] # NoExc
         /\ \E i \in CallsOf(s, "disconnect") : ~calls[s][i].ok) =>
            /\ result[s].kind = "raised"
            /\ result[s].exc.type = DisconnectFailure
            /\ result[s].exc.origin = "disconnect"
            /\ result[s].exc.context = "block"
            /\ result[s].exc # thrown[s]

\* C11 witness: a block raised ValueError, the disconnect of its cleanup
\* raised, and the with statement has ended.
C11_Witness ==
    \E s \in Scopes :
        /\ pc[s] = "done"
        /\ thrown[s].type = "ValueError"
        /\ \E i \in CallsOf(s, "disconnect") : ~calls[s][i].ok
        /\ result[s].exc.origin = "disconnect"

\* C12: the Connector does not retry: one ib_session invocation attempts the
\* library's connect at most once, and once an attempt has raised the
\* invocation is past the connector with that attempt as its only one.
C12_NoRetry ==
    \A s \in Scopes :
        /\ Cardinality(CallsOf(s, "connect")) <= 1
        /\ ConnectRaised(s) =>
              /\ pc[s] \in {"L83", "done"}
              /\ Cardinality(CallsOf(s, "connect")) = 1
              /\ calls[s][Len(calls[s])].op = "connect"
              /\ ~calls[s][Len(calls[s])].ok

\* C12 witness: an invocation has finished after its one connect attempt
\* raised.
C12_Witness ==
    \E s \in Scopes :
        /\ pc[s] = "done"
        /\ ConnectRaised(s)
        /\ Cardinality(CallsOf(s, "connect")) = 1
        /\ result[s].kind = "raised"

\* C13: util.startLoop is invoked by an ib_session invocation if and only if
\* the detector returned true for its connect: never when the detector said
\* "not a notebook" (or raised), and once when it said "notebook" and the
\* invocation has got past line 44.
C13_StartLoopIffNotebook ==
    \A s \in Scopes :
        /\ CallsOf(s, "startLoop") # {} => isNotebook[s] = "true"
        /\ isNotebook[s] \in {"unset", "false", "raised"} =>
              CallsOf(s, "startLoop") = {}
        /\ (isNotebook[s] = "true" /\ pc[s] # "L44") =>
              Cardinality(CallsOf(s, "startLoop")) = 1
        /\ (isNotebook[s] = "false" /\ pc[s] \in {"L81", "L83", "done"}) =>
              /\ CallsOf(s, "connect") # {}
              /\ calls[s][1].op = "connect"

\* C13 witness: the detector returned false and the invocation has finished
\* after a connect, without any startLoop call.
C13_Witness ==
    \E s \in Scopes :
        /\ isNotebook[s] = "false"
        /\ pc[s] = "done"
        /\ ConnectSucceeded(s)
        /\ CallsOf(s, "startLoop") = {}

\* C14: every connect is made on a fresh Session Handle: no two connect
\* calls, of the same or of different scopes, are on the same handle, no two
\* scopes hold the same handle, and the handle a block was handed is the one
\* its own scope's handshake succeeded on (never one whose connect failed).
C14_FreshHandle ==
    /\ \A c, d \in AllCallsOf("connect") :
          c # d => calls[c[1]][c[2]].h # calls[d[1]][d[2]].h
    /\ \A s, o \in Scopes :
          (s # o /\ ib[s] # Unbound /\ ib[o] # Unbound) => ib[s] # ib[o]
    /\ \A s \in Scopes :
          entered[s] =>
              /\ ib[s] \in Handles
              /\ \E i \in CallsOf(s, "connect") :
                    calls[s][i].h = ib[s] /\ calls[s][i].ok
              /\ \A c \in AllCallsOf("connect") :
                    calls[c[1]][c[2]].h = ib[s] => calls[c[1]][c[2]].ok

\* C14 witness: two scopes are inside their blocks at the same time, each
\* on a handle of its own.
C14_Witness ==
    \E s, o \in Scopes :
        /\ s # o
        /\ pc[s] = "L81" /\ pc[o] = "L81"
        /\ ib[s] \in Handles /\ ib[o] \in Handles
        /\ ib[s] # ib[o]

\* C15: scopes are independent: the exit of one scope requests disconnect
\* only on the handle its own connect returned and changes nothing of any
\* other scope (its calls, its local ib, its position, its state, its
\* result, the state of its handle); so every disconnect ever made is on the
\* handle of the scope that made it and no handle is disconnected twice.
C15_ScopesIndependent ==
    /\ [](/\ \A c \in AllCallsOf("disconnect") :
                calls[c[1]][c[2]].h \in ConnectedHandle(c[1])
          /\ \A c, d \in AllCallsOf("disconnect") :
                c # d => calls[c[1]][c[2]].h # calls[d[1]][d[2]].h)
    /\ [][\A s \in Scopes :
             (pc[s] = "L83" /\ pc'[s] = "done") =>
                 /\ \A i \in CallsOf(s, "disconnect")' :
                       calls'[s][i].h \in ConnectedHandle(s)
                 /\ \A o \in Scopes \ {s} :
                       /\ calls'[o] = calls[o]
                       /\ ib'[o] = ib[o]
                       /\ pc'[o] = pc[o]
                       /\ result'[o] = result[o]
                       /\ ScopeState(o)' = ScopeState(o)
                       /\ HandleState(ib[o])' = HandleState(ib[o])]_vars

\* C15 witness: scope s was opened while scope o was open (o's handle is
\* the older one), s has been closed, and o is still inside its block on a
\* connected handle.
C15_Witness ==
    \E s, o \in Scopes :
        /\ s # o
        /\ pc[o] = "L81" /\ ScopeState(o) = "open"
        /\ HandleState(ib[o]) = "connected"
        /\ pc[s] = "done" /\ ScopeState(s) = "closed"
        /\ ib[s] \in Handles /\ ib[o] < ib[s]

\* C16: the connect call is inside the try, so when _ib_connect raises (a
\* failing handshake, a failing loop start, an exception of the detector)
\* the finally clause runs with `ib` unassigned: no disconnect is issued,
\* and what leaves ib_session is the name-lookup failure raised at line 83
\* while the connector's failure was being handled, not that failure.
C16_UnboundLocalMasksConnectFailure ==
    \A s \in Scopes :
        /\ (ConnectorFailed(s) /\ pc[s] = "L83") =>
              /\ ib[s] = Unbound
              /\ pending[s] # NoExc
              /\ pending[s].origin \in {"connect", "startLoop", "L15"}
        /\ (ConnectorFailed(s) /\ pc[s] = "done") =>
              /\ ib[s] = Unbound
              /\ ~entered[s]
              /\ CallsOf(s, "disconnect") = {}
              /\ result[s].kind = "raised"
              /\ result[s].exc.type = "UnboundLocalError"
              /\ IsInstance(result[s].exc, {"NameError"})
              /\ result[s].exc.origin = "L83"
              /\ result[s].exc.context \in {"connect", "startLoop", "L15"}
              /\ ConnectRaised(s) => result[s].exc.context = "connect"

\* C16 witness: one invocation has finished after its handshake raised and
\* another after its loop start raised, both with the UnboundLocalError of
\* line 83.
C16_Witness ==
    \E s, o \in Scopes :
        /\ pc[s] = "done" /\ ConnectRaised(s)
        /\ result[s].exc.type = "UnboundLocalError"
        /\ result[s].exc.context = "connect"
        /\ pc[o] = "done"
        /\ \E i \in CallsOf(o, "startLoop") : ~calls[o][i].ok
        /\ result[o].exc.type = "UnboundLocalError"
        /\ result[o].exc.context = "startLoop"

====
